---- MODULE Spec2Model ----
(***************************************************************************)
(* Model of packages/grpc-native-core/ext/channel.cc: the Channel wrapper  *)
(* of the node binding (argument encoding, construction, close, teardown,  *)
(* connectivity queries and watches, call creation).                       *)
(*                                                                         *)
(* Every handler (NAN_METHOD) is one action.  A handler's result is first  *)
(* computed by an operator as a record (error thrown, value returned, the  *)
(* ordered list of allocations, releases and transport calls it makes,     *)
(* the new field values); the action then installs it.                     *)
(***************************************************************************)
EXTENDS Integers, Sequences, FiniteSets, TLC

(***************************************************************************)
(* Bounds of the model.                                                    *)
(***************************************************************************)
MaxChannels == 2
MaxKeys == 2
MaxWatches == 2
MaxCalls == 2

(***************************************************************************)
(* Characters and C strings.  A character is a one-letter string; NUL is   *)
(* the zero byte.  A buffer is a sequence of characters; read as a C       *)
(* string it ends before its first NUL.                                    *)
(***************************************************************************)
NUL == "NUL"
SPACE == " "

\* "grpc.primary_user_agent" (grpc/impl/codegen/grpc_types.h), used at lines 63, 92, 116
GRPC_ARG_PRIMARY_USER_AGENT_STRING ==
  <<"g","r","p","c",".","p","r","i","m","a","r","y","_","u","s","e","r","_","a","g","e","n","t">>

\* "grpc-node/" GRPC_NODE_VERSION; "V" stands for the version text of the build
grpc_node_user_agent ==
  <<"g","r","p","c","-","n","o","d","e","/","V">>

\* sizeof of a char array: its length with the trailing zero byte
SizeOf(lit) == Len(lit) + 1

\* the bytes of a string literal, trailing zero byte included
Literal(lit) == lit \o <<NUL>>

RECURSIVE CStrFrom(_, _)
CStrFrom(buf, j) ==
  IF j > Len(buf) \/ buf[j] = NUL THEN <<>>
  ELSE <<buf[j]>> \o CStrFrom(buf, j + 1)

\* what a reader of a char* sees
CStr(buf) == CStrFrom(buf, 1)

strcmp0(a, b) == CStr(a) = CStr(b)

Calloc(n) == [j \in 1..n |-> NUL]

\* memcpy(dst + off, src, n)
Memcpy(dst, off, src, n) ==
  [j \in 1..Len(dst) |-> IF j > off /\ j <= off + n THEN src[j - off] ELSE dst[j]]

\* a pointer to a buffer, or NULL
NULLP == [isnull |-> TRUE, buf |-> <<>>]
Ptr(b) == [isnull |-> FALSE, buf |-> b]

(***************************************************************************)
(* Values of the scripting environment, as the handlers' type tests see    *)
(* them.                                                                   *)
(***************************************************************************)
\* A number is n + w * 2^31 with 0 <= w <= 2 and, when w > 0, 0 <= n < 2^31:
\* w = 0 holds the 32-bit signed integers, w = 1 the rest of the 32-bit
\* unsigned ones, w = 2 integers beyond 32 bits.
JSVal(kind, num, win, str, pr) ==
  [k |-> kind, n |-> num, w |-> win, s |-> str, props |-> pr]
Undefined == JSVal("undefined", 0, 0, <<>>, <<>>)
Null == JSVal("null", 0, 0, <<>>, <<>>)
True == JSVal("boolean", 1, 0, <<>>, <<>>)
Num(x) == JSVal("number", x, 0, <<>>, <<>>)
\* the integer 2^31 + x
Num31(x) == JSVal("number", x, 1, <<>>, <<>>)
\* the integer 2^32 + x
Num32(x) == JSVal("number", x, 2, <<>>, <<>>)
\* a number with a fractional part (x + 1/2)
Frac(x) == JSVal("fraction", x, 0, <<>>, <<>>)
Str(x) == JSVal("string", 0, 0, x, <<>>)
Date(x) == JSVal("date", x, 0, <<>>, <<>>)
Func(x) == JSVal("function", x, 0, <<>>, <<>>)
\* a plain object with own properties pr, in property-name order
Obj(pr) == JSVal("object", 0, 0, <<>>, pr)
\* wrapper objects: n is the identity of the wrapped C++ object
ChannelObj(c) == JSVal("Channel", c, 0, <<>>, <<>>)
CallObj(c) == JSVal("Call", c, 0, <<>>, <<>>)
\* a ChannelCredentials wrapper; n = 0 when GetWrappedCredentials() is NULL
CredsObj(c) == JSVal("ChannelCredentials", c, 0, <<>>, <<>>)

IsUndefined(v) == v.k = "undefined"
IsNull(v) == v.k = "null"
IsString(v) == v.k = "string"
IsNumber(v) == v.k \in {"number", "fraction"}
IsDate(v) == v.k = "date"
IsFunction(v) == v.k = "function"
IsObject(v) == v.k \in {"object", "function", "date", "Channel", "Call", "ChannelCredentials"}
IsInt32(v) == v.k = "number" /\ v.w = 0
IsUint32(v) == v.k = "number" /\ ((v.w = 0 /\ v.n >= 0) \/ v.w = 1)

\* Nan::Utf8String: the bytes with a trailing zero, and length() without it
Utf8String(v) == [str |-> v.s \o <<NUL>>, length |-> Len(v.s)]

\* Nan::GetOwnPropertyNames
GetOwnPropertyNames(o) == [j \in 1..Len(o.props) |-> Str(o.props[j].key)]

\* Nan::HasOwnProperty
HasOwnProperty(o, name) == \E j \in 1..Len(o.props) : o.props[j].key = name

\* Nan::Get on an own property
Get(o, key) ==
  LET j == CHOOSE j \in 1..Len(o.props) : o.props[j].key = key.s
  IN o.props[j].value

(***************************************************************************)
(* The events a handler produces, in order.                                *)
(***************************************************************************)
Ev(e, kind, i, ok) == [e |-> e, kind |-> kind, i |-> i, ok |-> ok]
Alloc(kind, i) == Ev("alloc", kind, i, TRUE)
Free(kind, i) == Ev("free", kind, i, TRUE)

(***************************************************************************)
(* grpc_arg and grpc_channel_args.  calloc gives entries with a NULL key,  *)
(* type 0 (GRPC_ARG_STRING is the enum's zero) and a zero value.           *)
(***************************************************************************)
ZeroArg == [key |-> NULLP, type |-> "GRPC_ARG_STRING", integer |-> 0, string |-> NULLP]

PopulateUserAgentChannelArg(arg) ==
  LET key_len == SizeOf(GRPC_ARG_PRIMARY_USER_AGENT_STRING)
      val_len == SizeOf(grpc_node_user_agent)
  IN [arg EXCEPT
        !.key = Ptr(Memcpy(Calloc(key_len), 0,
                           Literal(GRPC_ARG_PRIMARY_USER_AGENT_STRING), key_len)),
        !.type = "GRPC_ARG_STRING",
        !.string = Ptr(Memcpy(Calloc(val_len), 0,
                              Literal(grpc_node_user_agent), val_len))]

\* lines 116-131: the value buffer of a user-supplied user agent entry
UserAgentValue(val_str) ==
  LET val_str_len == val_str.length
      user_agent_len == SizeOf(grpc_node_user_agent)
      b0 == Calloc(val_str_len + user_agent_len + 1)
      b1 == Memcpy(b0, 0, val_str.str, val_str.length)
      b2 == [b1 EXCEPT ![val_str_len + 1] = SPACE]
  IN Memcpy(b2, val_str_len + 1, Literal(grpc_node_user_agent), user_agent_len)

\* PlainValue copying one byte too few of the text
PlainValue_Short(val_str) ==
  Memcpy(Calloc(val_str.length + 1), 0, val_str.str, val_str.length - 1)

\* lines 133-136: the value buffer of any other string entry
PlainValue(val_str) ==
  Memcpy(Calloc(val_str.length + 1), 0, val_str.str, val_str.length + 1)

\* lines 142-144
KeyBuffer(key_str) ==
  Memcpy(Calloc(key_str.length + 1), 0, key_str.str, key_str.length + 1)

\* lines 99-145: the loop, from index i (0-based) on
RECURSIVE ParseLoop(_, _, _, _, _)
ParseLoop(keys, args_hash, i, args, events) ==
  IF ~(i < Len(keys)) THEN [ok |-> TRUE, args |-> args, events |-> events]
  ELSE
    LET key == keys[i + 1]
        key_str == Utf8String(key)
        value == Get(args_hash, key)
    IN IF ~IsString(key) THEN [ok |-> FALSE, args |-> args, events |-> events]
       ELSE IF IsInt32(value) THEN
         ParseLoop(keys, args_hash, i + 1,
                   [args EXCEPT ![i + 1] =
                      [key |-> Ptr(KeyBuffer(key_str)), type |-> "GRPC_ARG_INTEGER",
                       integer |-> value.n, string |-> NULLP]],
                   events \o <<Alloc("key", i)>>)
       ELSE IF IsString(value) THEN
         LET val_str == Utf8String(value)
             buf == IF strcmp0(key_str.str, Literal(GRPC_ARG_PRIMARY_USER_AGENT_STRING))
                    THEN UserAgentValue(val_str)
                    ELSE PlainValue(val_str)
         IN ParseLoop(keys, args_hash, i + 1,
                      [args EXCEPT ![i + 1] =
                         [key |-> Ptr(KeyBuffer(key_str)), type |-> "GRPC_ARG_STRING",
                          integer |-> 0, string |-> Ptr(buf)]],
                      events \o <<Alloc("val", i), Alloc("key", i)>>)
       ELSE [ok |-> FALSE, args |-> args, events |-> events]

\* lines 73-152.  ptr is *channel_args_ptr on return.
ParseChannelArgs(args_val0) ==
  LET args_val == IF IsUndefined(args_val0) \/ IsNull(args_val0) THEN Obj(<<>>)
                  ELSE args_val0
  IN IF ~IsObject(args_val)
     THEN [ok |-> FALSE, isnull |-> TRUE, num_args |-> 0, args |-> <<>>, events |-> <<>>]
     ELSE
       LET keys == GetOwnPropertyNames(args_val)
           has_user_agent_arg ==
             HasOwnProperty(args_val, GRPC_ARG_PRIMARY_USER_AGENT_STRING)
           num_args == IF has_user_agent_arg THEN Len(keys) ELSE Len(keys) + 1
           args0 == [j \in 1..num_args |-> ZeroArg]
           r == ParseLoop(keys, args_val, 0, args0,
                          <<Alloc("list", 0), Alloc("args", 0)>>)
       IN IF ~r.ok
          THEN [ok |-> FALSE, isnull |-> FALSE, num_args |-> num_args,
                args |-> r.args, events |-> r.events]
          ELSE IF ~has_user_agent_arg
          THEN [ok |-> TRUE, isnull |-> FALSE, num_args |-> num_args,
                args |-> [r.args EXCEPT ![num_args] =
                            PopulateUserAgentChannelArg(r.args[num_args])],
                events |-> r.events \o <<Alloc("key", num_args - 1),
                                         Alloc("val", num_args - 1)>>]
          ELSE [ok |-> TRUE, isnull |-> FALSE, num_args |-> num_args,
                args |-> r.args, events |-> r.events]

\* the loop without the break of lines 159-163
RECURSIVE DeallocLoop_NoBreak(_, _)
DeallocLoop_NoBreak(channel_args, i) ==
  IF ~(i < channel_args.num_args) THEN <<>>
  ELSE <<Free("key", i)>>
       \o (IF channel_args.args[i + 1].type = "GRPC_ARG_STRING"
           THEN <<Free("val", i)>> ELSE <<>>)
       \o DeallocLoop_NoBreak(channel_args, i + 1)

\* lines 158-168: the loop, from index i (0-based) on
RECURSIVE DeallocLoop(_, _)
DeallocLoop(channel_args, i) ==
  IF ~(i < channel_args.num_args) THEN <<>>
  ELSE IF channel_args.args[i + 1].key.isnull THEN <<>>
  ELSE <<Free("key", i)>>
       \o (IF channel_args.args[i + 1].type = "GRPC_ARG_STRING"
           THEN <<Free("val", i)>> ELSE <<>>)
       \o DeallocLoop(channel_args, i + 1)

\* DeallocateChannelArgs without line 170: the list itself is never freed
DeallocateChannelArgs_KeepsList(channel_args) ==
  IF channel_args.isnull THEN <<>>
  ELSE DeallocLoop(channel_args, 0) \o <<Free("args", 0)>>

\* lines 154-171: the releases it makes
DeallocateChannelArgs(channel_args) ==
  IF channel_args.isnull THEN <<>>
  ELSE DeallocLoop(channel_args, 0) \o <<Free("args", 0), Free("list", 0)>>

(***************************************************************************)
(* State.                                                                  *)
(*   channels: the Channel objects; wrapped_channel is a handle, 0 = NULL. *)
(*     closed records that close() has run on the object.                  *)
(*   handles: the transport's channels: how often each handle was returned *)
(*     by a create call and passed to grpc_channel_destroy.                *)
(*   watches: the tags registered with the completion queue (a tag holds   *)
(*     the callback and no reference to the channel), and how often each   *)
(*     tag's callback was invoked.                                         *)
(*   pending_batches: the completion queue's count of awaited completions. *)
(*   calls: the Call objects.                                              *)
(*   last: the last handler run: receiver, arguments, error thrown, value  *)
(*     returned, events in order, and the argument list it built.          *)
(***************************************************************************)
VARIABLES channels, handles, watches, pending_batches, calls, last

vars == <<channels, handles, watches, pending_batches, calls, last>>

ChannelIds == 1..MaxChannels
WatchIds == 1..MaxWatches
CallIds == 1..MaxCalls

NoArgs == [isnull |-> TRUE, num_args |-> 0, args |-> <<>>]
ArgsOf(p) == [isnull |-> p.isnull, num_args |-> p.num_args, args |-> p.args]

\* the handle is one the transport returned and has not destroyed
Alive(h) == h # 0 /\ handles[h].created = 1 /\ handles[h].destroyed = 0

\* a transport operation invoked on handle h
Native(name, h) == Ev("native", name, h, Alive(h))

\* a handler's outcome: an exception thrown and nothing else done
Throw(err, events) == [err |-> err, ret |-> Undefined, events |-> events]

Init ==
  /\ channels = [c \in ChannelIds |-> [st |-> "unborn", wrapped_channel |-> 0,
                                       closed |-> FALSE]]
  /\ handles = [h \in ChannelIds |-> [created |-> 0, destroyed |-> 0, target |-> <<>>]]
  /\ watches = [w \in WatchIds |-> [st |-> "free", called |-> 0, callback |-> Undefined]]
  /\ pending_batches = 0
  /\ calls = [k \in CallIds |-> [st |-> "free", wrapped_call |-> 0, parent |-> 0]]
  /\ last = [op |-> "none", this |-> Undefined, info |-> <<>>, err |-> "none",
             ret |-> Undefined, events |-> <<>>, args |-> NoArgs]

\* Channel::HasInstance, ChannelCredentials::HasInstance, Call::HasInstance
HasInstance(val) == val.k = "Channel"
ChannelCredentials_HasInstance(val) == val.k = "ChannelCredentials"
Call_HasInstance(val) == val.k = "Call"

(***************************************************************************)
(* Channel::New, lines 206-254.  result is what the transport's create     *)
(* returns: a new handle, or 0 for NULL.                                   *)
(***************************************************************************)
\* NewConstruct without lines 230 and 233-236: the credentials are ignored
\* and the channel is created insecure
NewConstruct_AlwaysInsecure(info, result) ==
  IF ~IsString(info[1])
  THEN Throw("TypeError", <<>>) @@ [made |-> FALSE, wrapped |-> 0, args |-> NoArgs]
  ELSE IF ~ChannelCredentials_HasInstance(info[2])
  THEN Throw("TypeError", <<>>) @@ [made |-> FALSE, wrapped |-> 0, args |-> NoArgs]
  ELSE
    LET p == ParseChannelArgs(info[3])
    IN IF ~p.ok
       THEN Throw("TypeError", p.events \o DeallocateChannelArgs(p))
            @@ [made |-> FALSE, wrapped |-> 0, args |-> ArgsOf(p)]
       ELSE [err |-> "none", ret |-> Undefined,
             events |-> p.events
                \o <<Ev("native", "grpc_insecure_channel_create", result, TRUE)>>
                \o DeallocateChannelArgs(p),
             made |-> TRUE, wrapped |-> result, args |-> ArgsOf(p)]

NewConstruct(info, result) ==
  IF ~IsString(info[1])
  THEN Throw("TypeError", <<>>) @@ [made |-> FALSE, wrapped |-> 0, args |-> NoArgs]
  ELSE IF ~ChannelCredentials_HasInstance(info[2])
  THEN Throw("TypeError", <<>>) @@ [made |-> FALSE, wrapped |-> 0, args |-> NoArgs]
  ELSE
    LET creds == info[2].n
        p == ParseChannelArgs(info[3])
    IN IF ~p.ok
       THEN Throw("TypeError", p.events \o DeallocateChannelArgs(p))
            @@ [made |-> FALSE, wrapped |-> 0, args |-> ArgsOf(p)]
       ELSE [err |-> "none", ret |-> Undefined,
             events |-> p.events
                \o <<Ev("native",
                        IF creds = 0 THEN "grpc_insecure_channel_create"
                        ELSE "grpc_secure_channel_create", result, TRUE)>>
                \o DeallocateChannelArgs(p),
             made |-> TRUE, wrapped |-> result, args |-> ArgsOf(p)]

\* the next Channel object and the next handle of the transport
FreshChannel == CHOOSE c \in ChannelIds :
  channels[c].st = "unborn" /\ \A d \in 1..(c - 1) : channels[d].st # "unborn"
FreshHandle == CHOOSE h \in ChannelIds :
  handles[h].created = 0 /\ \A g \in 1..(h - 1) : handles[g].created # 0

\* lines 206-254.  Called as a function (lines 242-253) the handler constructs
\* through NewInstance, which runs the construct path with the same three
\* arguments and hands back the instance, or nothing with the exception pending.
NewResult(isConstructCall, info, result) ==
  IF isConstructCall THEN NewConstruct(info, result)
  ELSE LET argv == <<info[1], info[2], info[3]>>
           maybe_instance == NewConstruct(argv, result)
       IN maybe_instance

New(isConstructCall, info, result) ==
  /\ \E c \in ChannelIds : channels[c].st = "unborn"
  /\ result \in {0, FreshHandle}
  /\ LET c == FreshChannel
         r == NewResult(isConstructCall, info, result)
     IN /\ channels' = IF r.made
                       THEN [channels EXCEPT ![c] = [st |-> "live",
                               wrapped_channel |-> r.wrapped, closed |-> FALSE]]
                       ELSE channels
        /\ handles' = IF r.made /\ r.wrapped # 0
                      THEN [handles EXCEPT ![r.wrapped] =
                              [created |-> 1, destroyed |-> 0, target |-> info[1].s]]
                      ELSE handles
        /\ last' = [op |-> "New", this |-> IF r.made THEN ChannelObj(c) ELSE Undefined,
                    info |-> info, err |-> r.err,
                    ret |-> IF r.made THEN ChannelObj(c) ELSE Undefined,
                    events |-> r.events, args |-> r.args]
  /\ UNCHANGED <<watches, pending_batches, calls>>

(***************************************************************************)
(* Channel::Close, lines 256-265, and Channel::~Channel, lines 175-180.    *)
(***************************************************************************)
\* CloseWrapped without line 263: the handle is kept after its destruction
CloseWrapped_KeepsHandle(wrapped_channel) ==
  IF wrapped_channel # 0
  THEN [events |-> <<Native("grpc_channel_destroy", wrapped_channel)>>,
        wrapped |-> wrapped_channel]
  ELSE [events |-> <<>>, wrapped |-> wrapped_channel]

\* lines 261-264: the transport calls made and the field's new value
CloseWrapped(wrapped_channel) ==
  IF wrapped_channel # 0
  THEN [events |-> <<Native("grpc_channel_destroy", wrapped_channel)>>, wrapped |-> 0]
  ELSE [events |-> <<>>, wrapped |-> wrapped_channel]

\* lines 177-179
DestroyWrapped(wrapped_channel) ==
  IF wrapped_channel # 0
  THEN <<Native("grpc_channel_destroy", wrapped_channel)>>
  ELSE <<>>

\* grpc_channel_destroy calls among the events, counted on the transport's side
Destroyed(events) ==
  [h \in ChannelIds |->
     [handles[h] EXCEPT !.destroyed =
        @ + Cardinality({j \in 1..Len(events) :
                           events[j].e = "native"
                           /\ events[j].kind = "grpc_channel_destroy"
                           /\ events[j].i = h})]]

\* the receivers a script can name: a Channel object it still holds, or
\* some object that is no Channel
Receivers == {ChannelObj(c) : c \in {d \in ChannelIds : channels[d].st = "live"}}
             \cup {Obj(<<>>)}

\* Close that also gives up the Calls: every Call is invalidated with the
\* channel
Close_DestroysCalls(this) ==
  /\ this \in Receivers
  /\ IF ~HasInstance(this)
     THEN /\ last' = [op |-> "close", this |-> this, info |-> <<>>, err |-> "TypeError",
                      ret |-> Undefined, events |-> <<>>, args |-> NoArgs]
          /\ UNCHANGED <<channels, handles, calls>>
     ELSE LET r == CloseWrapped(channels[this.n].wrapped_channel)
          IN /\ channels' = [channels EXCEPT ![this.n].wrapped_channel = r.wrapped,
                                             ![this.n].closed = TRUE]
             /\ handles' = Destroyed(r.events)
             /\ calls' = [k \in CallIds |->
                            IF calls[k].st = "live"
                            THEN [calls[k] EXCEPT !.wrapped_call = 0]
                            ELSE calls[k]]
             /\ last' = [op |-> "close", this |-> this, info |-> <<>>, err |-> "none",
                         ret |-> Undefined, events |-> r.events, args |-> NoArgs]
  /\ UNCHANGED <<watches, pending_batches>>

Close(this) ==
  /\ this \in Receivers
  /\ IF ~HasInstance(this)
     THEN /\ last' = [op |-> "close", this |-> this, info |-> <<>>, err |-> "TypeError",
                      ret |-> Undefined, events |-> <<>>, args |-> NoArgs]
          /\ UNCHANGED <<channels, handles>>
     ELSE LET r == CloseWrapped(channels[this.n].wrapped_channel)
          IN /\ channels' = [channels EXCEPT ![this.n].wrapped_channel = r.wrapped,
                                             ![this.n].closed = TRUE]
             /\ handles' = Destroyed(r.events)
             /\ last' = [op |-> "close", this |-> this, info |-> <<>>, err |-> "none",
                         ret |-> Undefined, events |-> r.events, args |-> NoArgs]
  /\ UNCHANGED <<watches, pending_batches, calls>>

\* the wrapper is collected once the script holds it no longer
Teardown(c) ==
  /\ channels[c].st = "live"
  /\ LET ev == DestroyWrapped(channels[c].wrapped_channel)
     IN /\ channels' = [channels EXCEPT ![c] = [st |-> "collected",
                                                 wrapped_channel |-> 0,
                                                 closed |-> FALSE]]
        /\ handles' = Destroyed(ev)
        /\ last' = [op |-> "teardown", this |-> ChannelObj(c), info |-> <<>>,
                    err |-> "none", ret |-> Undefined, events |-> ev, args |-> NoArgs]
  /\ UNCHANGED <<watches, pending_batches, calls>>

(***************************************************************************)
(* Channel::GetTarget, lines 267-280, and Channel::GetConnectivityState,   *)
(* lines 282-295.                                                          *)
(***************************************************************************)
\* GetTargetResult without the check of lines 273-276
GetTargetResult_Unchecked(this) ==
  IF ~HasInstance(this) THEN Throw("TypeError", <<>>)
  ELSE LET h == channels[this.n].wrapped_channel
       IN [err |-> "none",
           ret |-> Str(IF Alive(h) THEN handles[h].target ELSE <<>>),
           events |-> <<Native("grpc_channel_get_target", h)>>]

GetTargetResult(this) ==
  IF ~HasInstance(this) THEN Throw("TypeError", <<>>)
  ELSE IF channels[this.n].wrapped_channel = 0 THEN Throw("Error", <<>>)
  ELSE LET h == channels[this.n].wrapped_channel
       IN [err |-> "none",
           ret |-> Str(IF Alive(h) THEN handles[h].target ELSE <<>>),
           events |-> <<Native("grpc_channel_get_target", h)>>]

GetTarget(this) ==
  /\ this \in Receivers
  /\ LET r == GetTargetResult(this)
     IN last' = [op |-> "getTarget", this |-> this, info |-> <<>>, err |-> r.err,
                 ret |-> r.ret, events |-> r.events, args |-> NoArgs]
  /\ UNCHANGED <<channels, handles, watches, pending_batches, calls>>

\* grpc_connectivity_state: IDLE, CONNECTING, READY, TRANSIENT_FAILURE, SHUTDOWN
ConnectivityStates == 0..4

\* state is the transport's answer
GetConnectivityStateResult(this, info, state) ==
  IF ~HasInstance(this) THEN Throw("TypeError", <<>>)
  ELSE IF channels[this.n].wrapped_channel = 0 THEN Throw("Error", <<>>)
  ELSE LET h == channels[this.n].wrapped_channel
       IN [err |-> "none", ret |-> Num(state),
           events |-> <<Native("grpc_channel_check_connectivity_state", h)>>]

GetConnectivityState(this, info, state) ==
  /\ this \in Receivers
  /\ LET r == GetConnectivityStateResult(this, info, state)
     IN last' = [op |-> "getConnectivityState", this |-> this, info |-> info,
                 err |-> r.err, ret |-> r.ret, events |-> r.events, args |-> NoArgs]
  /\ UNCHANGED <<channels, handles, watches, pending_batches, calls>>

(***************************************************************************)
(* Channel::WatchConnectivityState, lines 297-330.  w is the tag created.  *)
(***************************************************************************)
\* WatchResult without the check of lines 315-318
WatchResult_Unchecked(this, info, w) ==
  IF ~HasInstance(this) THEN Throw("TypeError", <<>>)
  ELSE IF ~IsUint32(info[1]) THEN Throw("TypeError", <<>>)
  ELSE IF ~(IsNumber(info[2]) \/ IsDate(info[2])) THEN Throw("TypeError", <<>>)
  ELSE IF ~IsFunction(info[3]) THEN Throw("TypeError", <<>>)
  ELSE LET h == channels[this.n].wrapped_channel
       IN [err |-> "none", ret |-> Undefined,
           events |-> <<Alloc("callback", w), Alloc("opvec", w), Alloc("tag", w),
                        Native("grpc_channel_watch_connectivity_state", h),
                        Ev("cq", "CompletionQueueNext", 0, TRUE)>>]

\* WatchResult without line 329: the completion queue is not asked to drain
WatchResult_NoQueueNext(this, info, w) ==
  IF ~HasInstance(this) THEN Throw("TypeError", <<>>)
  ELSE IF ~IsUint32(info[1]) THEN Throw("TypeError", <<>>)
  ELSE IF ~(IsNumber(info[2]) \/ IsDate(info[2])) THEN Throw("TypeError", <<>>)
  ELSE IF ~IsFunction(info[3]) THEN Throw("TypeError", <<>>)
  ELSE IF channels[this.n].wrapped_channel = 0 THEN Throw("Error", <<>>)
  ELSE LET h == channels[this.n].wrapped_channel
       IN [err |-> "none", ret |-> Undefined,
           events |-> <<Alloc("callback", w), Alloc("opvec", w), Alloc("tag", w),
                        Native("grpc_channel_watch_connectivity_state", h)>>]

\* WatchResult without the check of lines 310-313: any third argument is
\* taken as the callback
WatchResult_NoCallbackCheck(this, info, w) ==
  IF ~HasInstance(this) THEN Throw("TypeError", <<>>)
  ELSE IF ~IsUint32(info[1]) THEN Throw("TypeError", <<>>)
  ELSE IF ~(IsNumber(info[2]) \/ IsDate(info[2])) THEN Throw("TypeError", <<>>)
  ELSE IF channels[this.n].wrapped_channel = 0 THEN Throw("Error", <<>>)
  ELSE LET h == channels[this.n].wrapped_channel
       IN [err |-> "none", ret |-> Undefined,
           events |-> <<Alloc("callback", w), Alloc("opvec", w), Alloc("tag", w),
                        Native("grpc_channel_watch_connectivity_state", h),
                        Ev("cq", "CompletionQueueNext", 0, TRUE)>>]

\* WatchResult with line 329 moved before line 325: the completion queue is
\* asked to drain before the watch is registered
WatchResult_QueueNextFirst(this, info, w) ==
  IF ~HasInstance(this) THEN Throw("TypeError", <<>>)
  ELSE IF ~IsUint32(info[1]) THEN Throw("TypeError", <<>>)
  ELSE IF ~(IsNumber(info[2]) \/ IsDate(info[2])) THEN Throw("TypeError", <<>>)
  ELSE IF ~IsFunction(info[3]) THEN Throw("TypeError", <<>>)
  ELSE IF channels[this.n].wrapped_channel = 0 THEN Throw("Error", <<>>)
  ELSE LET h == channels[this.n].wrapped_channel
       IN [err |-> "none", ret |-> Undefined,
           events |-> <<Alloc("callback", w), Alloc("opvec", w), Alloc("tag", w),
                        Ev("cq", "CompletionQueueNext", 0, TRUE),
                        Native("grpc_channel_watch_connectivity_state", h)>>]

WatchResult(this, info, w) ==
  IF ~HasInstance(this) THEN Throw("TypeError", <<>>)
  ELSE IF ~IsUint32(info[1]) THEN Throw("TypeError", <<>>)
  ELSE IF ~(IsNumber(info[2]) \/ IsDate(info[2])) THEN Throw("TypeError", <<>>)
  ELSE IF ~IsFunction(info[3]) THEN Throw("TypeError", <<>>)
  ELSE IF channels[this.n].wrapped_channel = 0 THEN Throw("Error", <<>>)
  ELSE LET h == channels[this.n].wrapped_channel
       IN [err |-> "none", ret |-> Undefined,
           events |-> <<Alloc("callback", w), Alloc("opvec", w), Alloc("tag", w),
                        Native("grpc_channel_watch_connectivity_state", h),
                        Ev("cq", "CompletionQueueNext", 0, TRUE)>>]

\* how many events of this kind the handler produced
Count(events, e, kind) ==
  Cardinality({j \in 1..Len(events) : events[j].e = e /\ events[j].kind = kind})

FreshWatch == CHOOSE w \in WatchIds :
  watches[w].st = "free" /\ \A v \in 1..(w - 1) : watches[v].st # "free"

\* WatchConnectivityState with one tag kept for every call in place of the
\* new tag of line 328: a registration takes the place of the one before
WatchConnectivityState_OneTag(this, info) ==
  /\ this \in Receivers
  /\ \E w \in WatchIds : watches[w].st = "free"
  /\ LET w == 1
         r == WatchResult(this, info, w)
         registered == Count(r.events, "native",
                             "grpc_channel_watch_connectivity_state") > 0
     IN /\ watches' = IF registered
                      THEN [watches EXCEPT ![w] = [st |-> "pending", called |-> 0,
                                                   callback |-> info[3]]]
                      ELSE watches
        /\ pending_batches' =
             pending_batches + Count(r.events, "cq", "CompletionQueueNext")
        /\ last' = [op |-> "watchConnectivityState", this |-> this, info |-> info,
                    err |-> r.err, ret |-> r.ret, events |-> r.events,
                    args |-> NoArgs]
  /\ UNCHANGED <<channels, handles, calls>>

WatchConnectivityState(this, info) ==
  /\ this \in Receivers
  /\ \E w \in WatchIds : watches[w].st = "free"
  /\ LET w == FreshWatch
         r == WatchResult(this, info, w)
         registered == Count(r.events, "native",
                             "grpc_channel_watch_connectivity_state") > 0
     IN /\ watches' = IF registered
                      THEN [watches EXCEPT ![w] = [st |-> "pending", called |-> 0,
                                                   callback |-> info[3]]]
                      ELSE watches
        /\ pending_batches' =
             pending_batches + Count(r.events, "cq", "CompletionQueueNext")
        /\ last' = [op |-> "watchConnectivityState", this |-> this, info |-> info,
                    err |-> r.err, ret |-> r.ret, events |-> r.events,
                    args |-> NoArgs]
  /\ UNCHANGED <<channels, handles, calls>>

(***************************************************************************)
(* The completion queue resolves a registered tag: its callback is invoked *)
(* with the new state or with the deadline's failure, and the tag is       *)
(* destroyed.  It drains only while completions are awaited.  The step's   *)
(* info is the function invoked.                                           *)
(***************************************************************************)
CompleteWatch(w, outcome) ==
  /\ watches[w].st = "pending"
  /\ pending_batches > 0
  /\ watches' = [watches EXCEPT ![w] = [st |-> "done",
                                        called |-> watches[w].called + 1,
                                        callback |-> Undefined]]
  /\ pending_batches' = pending_batches - 1
  /\ last' = [op |-> "complete", this |-> Undefined,
              info |-> <<watches[w].callback>>, err |-> "none",
              ret |-> Undefined,
              events |-> <<Ev("callback", outcome, w, TRUE), Free("tag", w),
                           Free("callback", w), Free("opvec", w)>>,
              args |-> NoArgs]
  /\ UNCHANGED <<channels, handles, calls>>

(***************************************************************************)
(* Channel::CreateCall, lines 332-394.  k is the Call created; made tells  *)
(* whether the transport's create_call returns a call (else NULL).         *)
(***************************************************************************)
\* CreateCallResult without the check of lines 357-360: a fourth argument
\* that is no Call is taken as no parent
CreateCallResult_NoParentCheck(this, info, k, made) ==
  IF ~HasInstance(this) THEN Throw("TypeError", <<>>) @@ [call |-> 0, parent |-> 0]
  ELSE IF ~IsString(info[1]) THEN Throw("TypeError", <<>>) @@ [call |-> 0, parent |-> 0]
  ELSE IF ~(IsNumber(info[2]) \/ IsDate(info[2]))
  THEN Throw("TypeError", <<>>) @@ [call |-> 0, parent |-> 0]
  ELSE IF ~IsUint32(info[5]) /\ ~(IsUndefined(info[5]) \/ IsNull(info[5]))
  THEN Throw("TypeError", <<>>) @@ [call |-> 0, parent |-> 0]
  ELSE
    LET parent_call == IF Call_HasInstance(info[4]) THEN info[4].n ELSE 0
        wrapped_channel == channels[this.n].wrapped_channel
        wrapped_call == IF made THEN k ELSE 0
        wrapped == IF made THEN CallObj(k) ELSE Null
    IN IF wrapped_channel = 0
       THEN Throw("Error", <<>>) @@ [call |-> 0, parent |-> 0]
       ELSE IF IsString(info[3])
       THEN [err |-> "none", ret |-> wrapped,
             events |-> <<Alloc("method_slice", 0), Alloc("host_struct", 0),
                          Alloc("host_slice", 0),
                          Native("grpc_channel_create_call", wrapped_channel),
                          Free("host_struct", 0), Free("method_slice", 0)>>,
             call |-> wrapped_call, parent |-> parent_call]
       ELSE IF IsUndefined(info[3]) \/ IsNull(info[3])
       THEN [err |-> "none", ret |-> wrapped,
             events |-> <<Alloc("method_slice", 0),
                          Native("grpc_channel_create_call", wrapped_channel),
                          Free("method_slice", 0)>>,
             call |-> wrapped_call, parent |-> parent_call]
       ELSE Throw("TypeError", <<Alloc("method_slice", 0)>>)
            @@ [call |-> 0, parent |-> 0]

\* CreateCallResult with the check of lines 368-372 moved before line 344:
\* the closed channel is found before the arguments are looked at
CreateCallResult_ClosedFirst(this, info, k, made) ==
  IF ~HasInstance(this) THEN Throw("TypeError", <<>>) @@ [call |-> 0, parent |-> 0]
  ELSE IF channels[this.n].wrapped_channel = 0
  THEN Throw("Error", <<>>) @@ [call |-> 0, parent |-> 0]
  ELSE IF ~IsString(info[1]) THEN Throw("TypeError", <<>>) @@ [call |-> 0, parent |-> 0]
  ELSE IF ~(IsNumber(info[2]) \/ IsDate(info[2]))
  THEN Throw("TypeError", <<>>) @@ [call |-> 0, parent |-> 0]
  ELSE IF ~Call_HasInstance(info[4]) /\ ~(IsUndefined(info[4]) \/ IsNull(info[4]))
  THEN Throw("TypeError", <<>>) @@ [call |-> 0, parent |-> 0]
  ELSE IF ~IsUint32(info[5]) /\ ~(IsUndefined(info[5]) \/ IsNull(info[5]))
  THEN Throw("TypeError", <<>>) @@ [call |-> 0, parent |-> 0]
  ELSE
    LET parent_call == IF Call_HasInstance(info[4]) THEN info[4].n ELSE 0
        wrapped_channel == channels[this.n].wrapped_channel
        wrapped_call == IF made THEN k ELSE 0
        wrapped == IF made THEN CallObj(k) ELSE Null
    IN IF IsString(info[3])
       THEN [err |-> "none", ret |-> wrapped,
             events |-> <<Alloc("method_slice", 0), Alloc("host_struct", 0),
                          Alloc("host_slice", 0),
                          Native("grpc_channel_create_call", wrapped_channel),
                          Free("host_struct", 0), Free("method_slice", 0)>>,
             call |-> wrapped_call, parent |-> parent_call]
       ELSE IF IsUndefined(info[3]) \/ IsNull(info[3])
       THEN [err |-> "none", ret |-> wrapped,
             events |-> <<Alloc("method_slice", 0),
                          Native("grpc_channel_create_call", wrapped_channel),
                          Free("method_slice", 0)>>,
             call |-> wrapped_call, parent |-> parent_call]
       ELSE Throw("TypeError", <<Alloc("method_slice", 0)>>)
            @@ [call |-> 0, parent |-> 0]

CreateCallResult(this, info, k, made) ==
  IF ~HasInstance(this) THEN Throw("TypeError", <<>>) @@ [call |-> 0, parent |-> 0]
  ELSE IF ~IsString(info[1]) THEN Throw("TypeError", <<>>) @@ [call |-> 0, parent |-> 0]
  ELSE IF ~(IsNumber(info[2]) \/ IsDate(info[2]))
  THEN Throw("TypeError", <<>>) @@ [call |-> 0, parent |-> 0]
  ELSE IF ~Call_HasInstance(info[4]) /\ ~(IsUndefined(info[4]) \/ IsNull(info[4]))
  THEN Throw("TypeError", <<>>) @@ [call |-> 0, parent |-> 0]
  ELSE IF ~IsUint32(info[5]) /\ ~(IsUndefined(info[5]) \/ IsNull(info[5]))
  THEN Throw("TypeError", <<>>) @@ [call |-> 0, parent |-> 0]
  ELSE
    LET parent_call == IF Call_HasInstance(info[4]) THEN info[4].n ELSE 0
        wrapped_channel == channels[this.n].wrapped_channel
        wrapped_call == IF made THEN k ELSE 0
        \* Call::WrapStruct gives null for a NULL call
        wrapped == IF made THEN CallObj(k) ELSE Null
    IN IF wrapped_channel = 0
       THEN Throw("Error", <<>>) @@ [call |-> 0, parent |-> 0]
       ELSE IF IsString(info[3])
       THEN [err |-> "none", ret |-> wrapped,
             events |-> <<Alloc("method_slice", 0), Alloc("host_struct", 0),
                          Alloc("host_slice", 0),
                          Native("grpc_channel_create_call", wrapped_channel),
                          Free("host_struct", 0), Free("method_slice", 0)>>,
             call |-> wrapped_call, parent |-> parent_call]
       ELSE IF IsUndefined(info[3]) \/ IsNull(info[3])
       THEN [err |-> "none", ret |-> wrapped,
             events |-> <<Alloc("method_slice", 0),
                          Native("grpc_channel_create_call", wrapped_channel),
                          Free("method_slice", 0)>>,
             call |-> wrapped_call, parent |-> parent_call]
       ELSE Throw("TypeError", <<Alloc("method_slice", 0)>>)
            @@ [call |-> 0, parent |-> 0]

FreshCall == CHOOSE k \in CallIds :
  calls[k].st = "free" /\ \A j \in 1..(k - 1) : calls[j].st # "free"

\* the Call objects a script can pass as parent
LiveCalls == {CallObj(k) : k \in {j \in CallIds : calls[j].st = "live"}}

CreateCall(this, info, made) ==
  /\ this \in Receivers
  /\ \E k \in CallIds : calls[k].st = "free"
  /\ Call_HasInstance(info[4]) => info[4] \in LiveCalls
  /\ LET k == FreshCall
         r == CreateCallResult(this, info, k, made)
     IN /\ calls' = IF r.call # 0
                    THEN [calls EXCEPT ![k] =
                            [st |-> "live", wrapped_call |-> r.call,
                             parent |-> r.parent]]
                    ELSE calls
        /\ last' = [op |-> "createCall", this |-> this, info |-> info, err |-> r.err,
                    ret |-> r.ret, events |-> r.events, args |-> NoArgs]
  /\ UNCHANGED <<channels, handles, watches, pending_batches>>

(***************************************************************************)
(* The arguments the handlers are called with.                             *)
(***************************************************************************)
Target == Str(<<"h">>)

\* option keys: the user agent key, two plain keys, and a key with a zero
\* byte inside
OptionKeys == {GRPC_ARG_PRIMARY_USER_AGENT_STRING, <<"k">>, <<"j">>, <<"k", NUL, "x">>}

\* option values: strings (one with a zero byte inside), integers within and
\* beyond 32 bits, and values that are neither
OptionValues == {Str(<<"v">>), Str(<<"v", NUL, "w">>), Num(7), Num31(0), Frac(1), True}

OptionEntries == [key : OptionKeys, value : OptionValues]

\* the own properties of an options object: at most MaxKeys, names distinct
OptionProps ==
  UNION {{p \in [1..n -> OptionEntries] :
            \A i, j \in 1..n : i # j => p[i].key # p[j].key} : n \in 0..MaxKeys}

AllOptions == {Undefined, Null, Num(3)} \cup {Obj(p) : p \in OptionProps}

\* the options of the life-cycle specification: absent, empty, not an
\* object, with a user agent (a string, an integer), with an ill-typed value
FewOptions ==
  {Undefined, Obj(<<>>), Num(3),
   Obj(<<[key |-> GRPC_ARG_PRIMARY_USER_AGENT_STRING, value |-> Str(<<"v">>)]>>),
   Obj(<<[key |-> GRPC_ARG_PRIMARY_USER_AGENT_STRING, value |-> Num(7)]>>),
   Obj(<<[key |-> <<"k">>, value |-> Num(7)], [key |-> <<"j">>, value |-> True]>>)}

NewInfos ==
  {<<Target, CredsObj(0), o>> : o \in FewOptions}
  \cup {<<Target, CredsObj(1), Undefined>>, <<Num(1), CredsObj(0), Undefined>>,
        <<Target, Null, Undefined>>}

NewArgsInfos == {<<Target, CredsObj(c), o>> : c \in {0, 1}, o \in AllOptions}

\* absent, true
ConnectInfos == {<<Undefined>>, <<True>>}

\* well-typed (a state beyond the enum included), and each argument
\* ill-typed in turn
WatchInfos ==
  {<<Num(0), Num(5), Func(1)>>, <<Num(99), Date(5), Func(2)>>,
   <<Num32(0), Num(5), Func(1)>>,
   <<Num(-1), Num(5), Func(1)>>, <<Str(<<"s">>), Num(5), Func(1)>>,
   <<Num(0), Str(<<"d">>), Func(1)>>, <<Num(0), Num(5), Undefined>>}

\* well-typed with each kind of host, parent and flags, and each argument
\* ill-typed in turn
CreateCallInfos ==
  {<<Str(<<"m">>), Num(5), Undefined, Undefined, Undefined>>,
   <<Str(<<"m">>), Date(5), Str(<<"h">>), Null, Num(1)>>,
   <<Str(<<"m">>), Num(5), Null, Undefined, Undefined>>,
   <<Str(<<"m">>), Num(5), Num(4), Undefined, Undefined>>,
   <<Num(1), Num(5), Undefined, Undefined, Undefined>>,
   <<Str(<<"m">>), Str(<<"d">>), Undefined, Undefined, Undefined>>,
   <<Str(<<"m">>), Num(5), Undefined, Obj(<<>>), Undefined>>,
   <<Str(<<"m">>), Num(5), Undefined, Undefined, Num(-1)>>,
   <<Num(1), Num(5), Num(4), Undefined, Undefined>>}
  \cup {<<Str(<<"m">>), Num(5), Undefined, CallObj(k), Undefined>> : k \in CallIds}

\* the arguments of the specification of several channels: one well-typed
\* and one ill-typed call of each handler
SomeNewInfos == {<<Target, CredsObj(0), Undefined>>, <<Num(1), CredsObj(0), Undefined>>}
SomeWatchInfos == {<<Num(0), Num(5), Func(1)>>}
SomeCreateCallInfos ==
  {<<Str(<<"m">>), Num(5), Str(<<"h">>), Undefined, Undefined>>}
  \cup {<<Str(<<"m">>), Num(5), Undefined, CallObj(k), Undefined>> : k \in CallIds}
ChannelObjs == {ChannelObj(c) : c \in ChannelIds}

(***************************************************************************)
(* Specifications.                                                         *)
(***************************************************************************)
\* several channels side by side, the handlers called on each of them
Next ==
  \/ \E cc \in BOOLEAN, info \in SomeNewInfos, result \in 0..MaxChannels :
       New(cc, info, result)
  \/ \E this \in ChannelObjs : Close(this)
  \/ \E c \in ChannelIds : Teardown(c)
  \/ \E this \in ChannelObjs : GetTarget(this)
  \/ \E this \in ChannelObjs : GetConnectivityState(this, <<True>>, 0)
  \/ \E this \in ChannelObjs, info \in SomeWatchInfos : WatchConnectivityState(this, info)
  \/ \E w \in WatchIds, outcome \in {"state", "timeout"} : CompleteWatch(w, outcome)
  \/ \E this \in ChannelObjs, info \in SomeCreateCallInfos : CreateCall(this, info, TRUE)

Spec == Init /\ [][Next]_vars

\* the life of one channel, every handler called with every kind of
\* receiver and argument; constructions are tried until one succeeds
NextOne ==
  \/ /\ channels[1].st = "unborn"
     /\ \E cc \in BOOLEAN, info \in NewInfos, result \in 0..MaxChannels :
          New(cc, info, result)
  \/ \E this \in Receivers : Close(this)
  \/ \E c \in ChannelIds : Teardown(c)
  \/ \E this \in Receivers : GetTarget(this)
  \/ \E this \in Receivers, info \in ConnectInfos, state \in ConnectivityStates :
       GetConnectivityState(this, info, state)
  \/ \E this \in Receivers, info \in WatchInfos : WatchConnectivityState(this, info)
  \/ \E w \in WatchIds, outcome \in {"state", "timeout"} : CompleteWatch(w, outcome)
  \/ \E this \in Receivers, info \in CreateCallInfos, made \in BOOLEAN :
       CreateCall(this, info, made)

SpecOne == Init /\ [][NextOne]_vars

\* the scheduler resolves every registered operation by its deadline
FairSpecOne ==
  SpecOne /\ \A w \in WatchIds : WF_vars(\E o \in {"state", "timeout"} : CompleteWatch(w, o))

\* one construction, over every options value
NextArgs ==
  /\ last.op = "none"
  /\ \E cc \in BOOLEAN, info \in NewArgsInfos, result \in 0..MaxChannels :
       New(cc, info, result)

SpecArgs == Init /\ [][NextArgs]_vars

(***************************************************************************)
(* Properties.                                                             *)
(***************************************************************************)
\* positions in a handler's events
Positions(events, e, kind, i) ==
  {j \in 1..Len(events) : events[j].e = e /\ events[j].kind = kind /\ events[j].i = i}

\* the transport operations that take a channel handle
HandleOps == {"grpc_channel_destroy", "grpc_channel_get_target",
              "grpc_channel_check_connectivity_state",
              "grpc_channel_watch_connectivity_state", "grpc_channel_create_call"}

CreateOps == {"grpc_insecure_channel_create", "grpc_secure_channel_create"}

DestroyCalls(events, h) == Cardinality(Positions(events, "native", "grpc_channel_destroy", h))

\* the handler last run was a method called on a Channel object
OnChannel(op) == last.op = op /\ HasInstance(last.this)

\* C1: a channel's handle is passed to destroy_channel at most once.  A
\* close() on an open channel destroys its handle once and sets the field
\* to null; a close() on a channel without handle calls nothing and changes
\* nothing; teardown destroys the handle only if close() was never called.
C1_Step ==
  /\ \A h \in ChannelIds : handles'[h].destroyed <= 1
  /\ (last'.op = "close" /\ last'.err = "none") =>
       LET c == last'.this.n
           h == channels[c].wrapped_channel
       IN IF h # 0
          THEN /\ DestroyCalls(last'.events, h) = 1
               /\ Len(last'.events) = 1
               /\ handles'[h].destroyed = handles[h].destroyed + 1
               /\ channels'[c].wrapped_channel = 0
          ELSE /\ last'.events = <<>>
               /\ handles' = handles
               /\ channels'[c].wrapped_channel = 0
               /\ channels'[c].st = channels[c].st
               /\ \A d \in ChannelIds \ {c} : channels'[d] = channels[d]
               /\ UNCHANGED <<watches, pending_batches, calls>>
  /\ last'.op = "teardown" =>
       LET c == last'.this.n
       IN /\ Len(last'.events) <= 1
          /\ last'.events # <<>> =>
               /\ ~channels[c].closed
               /\ DestroyCalls(last'.events, channels[c].wrapped_channel) = 1

C1_DestroyedAtMostOnce == [][C1_Step]_vars

\* a second close() on the one channel made, whose handle the first destroyed
C1_Witness ==
  /\ OnChannel("close") /\ last.err = "none" /\ last.events = <<>>
  /\ \A c \in ChannelIds \ {last.this.n} : channels[c].st = "unborn"
  /\ handles[1].destroyed = 1

\* C2: a live Channel's handle is null or a handle the transport returned
\* once, not destroyed, and held by no other Channel; and no method passes
\* a null or destroyed handle to a transport operation.
C2_HandleValid ==
  /\ \A c \in ChannelIds : channels[c].st = "live" /\ channels[c].wrapped_channel # 0 =>
       /\ handles[channels[c].wrapped_channel].created = 1
       /\ handles[channels[c].wrapped_channel].destroyed = 0
       /\ \A d \in ChannelIds \ {c} :
            channels[d].st = "live" =>
              channels[d].wrapped_channel # channels[c].wrapped_channel
  /\ \A h \in ChannelIds : handles[h].created <= 1
  /\ \A j \in 1..Len(last.events) :
       last.events[j].e = "native" /\ last.events[j].kind \in HandleOps =>
         last.events[j].i # 0 /\ last.events[j].ok

\* a call is created on an open channel while another channel is closed
C2_Witness ==
  /\ OnChannel("createCall") /\ last.err = "none"
  /\ \E c \in ChannelIds : channels[c].st = "live" /\ channels[c].closed
                           /\ c # last.this.n
  /\ \E h \in ChannelIds : handles[h].destroyed = 1

\* the type checks that precede the closed-channel check
WatchWellTyped(info) ==
  /\ info[1].k = "number" /\ info[1].w <= 1 /\ (info[1].w = 0 => info[1].n >= 0)
  /\ info[2].k \in {"number", "fraction", "date"}
  /\ info[3].k = "function"

CreateCallWellTyped(info) ==
  /\ info[1].k = "string"
  /\ info[2].k \in {"number", "fraction", "date"}
  /\ info[4].k \in {"Call", "undefined", "null"}
  /\ \/ info[5].k \in {"undefined", "null"}
     \/ info[5].k = "number" /\ info[5].w <= 1 /\ (info[5].w = 0 => info[5].n >= 0)

OpenOps == {"getTarget", "getConnectivityState", "watchConnectivityState", "createCall"}

\* the handler last run was one of the four, on a channel close() had run on
AfterClose == last.op \in OpenOps /\ HasInstance(last.this) /\ channels[last.this.n].closed

\* C3 as amended: after close(), each of the four operations throws, returns
\* no value and reaches no transport operation; the error is already-closed
\* when the arguments pass the type checks made before the closed check
\* (always for getTarget and getConnectivityState) and type-mismatch otherwise.
C3_FailsAfterClose ==
  AfterClose =>
    /\ last.err # "none"
    /\ last.ret = Undefined
    /\ last.events = <<>>
    /\ last.op \in {"getTarget", "getConnectivityState"} => last.err = "Error"
    /\ last.op = "watchConnectivityState" =>
         last.err = (IF WatchWellTyped(last.info) THEN "Error" ELSE "TypeError")
    /\ last.op = "createCall" =>
         last.err = (IF CreateCallWellTyped(last.info) THEN "Error" ELSE "TypeError")

\* C3 as stated: after close(), each of the four fails with already-closed
C3_Original ==
  AfterClose => last.err = "Error" /\ last.ret = Undefined

\* a well-typed watch on a closed channel fails with already-closed
C3_Witness ==
  /\ AfterClose /\ last.op = "watchConnectivityState"
  /\ WatchWellTyped(last.info) /\ last.err = "Error"
  /\ handles[1].destroyed = 1

\* C4 as stated: construction returns an open Channel or fails and returns
\* none; no Channel has a null handle unless close() has run on it.
C4_Claim ==
  /\ last.op = "New" =>
       \/ last.err = "none" /\ HasInstance(last.ret)
          /\ channels[last.ret.n].wrapped_channel # 0
       \/ last.err # "none" /\ last.ret = Undefined
  /\ \A c \in ChannelIds :
       channels[c].st = "live" /\ channels[c].wrapped_channel = 0 => channels[c].closed

\* the blocks a construction allocates: the list, its array, and each
\* entry's key and string value
BlockKinds == {"list", "args", "key", "val"}

CreatePositions(events) ==
  {j \in 1..Len(events) : events[j].e = "native" /\ events[j].kind \in CreateOps}

\* C5: on every exit path of construction each block of the argument list
\* that was allocated has been released exactly once, after its allocation
\* and after the transport's create call; nothing else is released.
C5_ArgsReleasedOnce ==
  last.op = "New" =>
    /\ \A kind \in BlockKinds, i \in 0..MaxKeys :
         LET a == Positions(last.events, "alloc", kind, i)
             f == Positions(last.events, "free", kind, i)
         IN /\ Cardinality(a) <= 1
            /\ Cardinality(f) = Cardinality(a)
            /\ \A x \in a, y \in f : x < y
            /\ \A y \in f, z \in CreatePositions(last.events) : z < y
    /\ \A j \in 1..Len(last.events) :
         last.events[j].e \in {"alloc", "free"} =>
           last.events[j].kind \in BlockKinds /\ last.events[j].i \in 0..MaxKeys
    /\ last.args.isnull => last.events = <<>>
    /\ ~last.args.isnull =>
         Cardinality(Positions(last.events, "alloc", "list", 0)) = 1
         /\ Cardinality(Positions(last.events, "alloc", "args", 0)) = 1
    /\ last.err = "none" <=> Cardinality(CreatePositions(last.events)) = 1

\* a construction that fails after it populated an entry
C5_Witness ==
  /\ last.op = "New" /\ last.err = "TypeError"
  /\ Positions(last.events, "free", "key", 0) # {}
  /\ Positions(last.events, "free", "list", 0) # {}

\* C6: a watch call that returns without throwing has registered one tag;
\* the tag's callback is invoked at most once, with the new state or with
\* the timeout and never thrown as an error; and under a scheduler that
\* resolves every registered operation, every pending watch is eventually
\* completed with exactly one invocation, whatever happens to its channel.
C6_Safe ==
  /\ \A w \in WatchIds :
       /\ watches[w].called <= 1
       /\ watches[w].st = "free" => watches[w].called = 0
       /\ watches[w].st = "pending" => watches[w].called = 0
       /\ watches[w].st = "done" => watches[w].called = 1
  /\ (last.op = "watchConnectivityState" /\ last.err = "none") =>
       /\ Count(last.events, "native", "grpc_channel_watch_connectivity_state") = 1
       /\ \E w \in WatchIds :
            /\ watches[w].st = "pending"
            /\ Positions(last.events, "alloc", "tag", w) # {}
  /\ last.op = "complete" =>
       /\ last.err = "none"
       /\ Cardinality({j \in 1..Len(last.events) : last.events[j].e = "callback"}) = 1
       /\ last.events[1].e = "callback"
       /\ last.events[1].kind \in {"state", "timeout"}
       /\ watches[last.events[1].i].st = "done"

C6_CallbackOnce ==
  /\ []C6_Safe
  /\ \A w \in WatchIds :
       (watches[w].st = "pending") ~> (watches[w].st = "done" /\ watches[w].called = 1)

\* a watch completes with the timeout after the handle of its channel (the
\* one channel of this specification) was destroyed
C6_Witness ==
  /\ last.op = "complete"
  /\ last.events[1].kind = "timeout"
  /\ watches[last.events[1].i].called = 1
  /\ handles[1].destroyed = 1

\* C7 as stated: every encoding createCall creates (method, host) has been
\* released when createCall returns, on every exit path after its creation.
C7_Claim ==
  last.op = "createCall" =>
    \A kind \in {"method_slice", "host_slice"} :
      \A a \in Positions(last.events, "alloc", kind, 0) :
        \E f \in Positions(last.events, "free", kind, 0) : a < f

\* an options value that is a plain object, and its entries (none for null
\* and undefined)
IsMapping(v) == v.k = "object"
EntriesOf(v) == IF v.k = "object" THEN v.props ELSE <<>>
AllStringOrInteger(v) ==
  \A j \in 1..Len(EntriesOf(v)) : EntriesOf(v)[j].value.k \in {"string", "number"}
HasUserAgent(v) ==
  \E j \in 1..Len(EntriesOf(v)) : EntriesOf(v)[j].key = GRPC_ARG_PRIMARY_USER_AGENT_STRING

RECURSIVE Decimal(_)
Decimal(n) ==
  LET d == <<"0", "1", "2", "3", "4", "5", "6", "7", "8", "9">>
  IN IF n < 10 THEN <<d[n + 1]>> ELSE Decimal(n \div 10) \o <<d[(n % 10) + 1]>>

\* the text of a string or of a non-negative integer value
ValueText(v) ==
  IF v.k = "string" THEN v.s
  ELSE IF v.w = 0 THEN Decimal(v.n)
  ELSE IF v.w = 1 /\ v.n = 0 THEN <<"2", "1", "4", "7", "4", "8", "3", "6", "4", "8">>
  ELSE <<"4", "2", "9", "4", "9", "6", "7", "2", "9", "6">>

\* the entries of the list built whose key reads as the identification key
UserAgentEntries ==
  {j \in 1..Len(last.args.args) :
     /\ ~last.args.args[j].key.isnull
     /\ CStr(last.args.args[j].key.buf) = GRPC_ARG_PRIMARY_USER_AGENT_STRING}

\* C8 as stated: for a mapping of strings and integers the list built has
\* exactly one entry under the identification key, a string: the fixed
\* text, or the user's value, a space and the fixed text.
C8_Claim ==
  (last.op = "New" /\ IsMapping(last.info[3]) /\ AllStringOrInteger(last.info[3])) =>
    /\ ~last.args.isnull
    /\ Cardinality(UserAgentEntries) = 1
    /\ \A j \in UserAgentEntries :
         /\ last.args.args[j].type = "GRPC_ARG_STRING"
         /\ ~last.args.args[j].string.isnull
         /\ CStr(last.args.args[j].string.buf) =
              (IF HasUserAgent(last.info[3])
               THEN LET u == CHOOSE i \in 1..Len(last.info[3].props) :
                               last.info[3].props[i].key = GRPC_ARG_PRIMARY_USER_AGENT_STRING
                    IN ValueText(last.info[3].props[u].value) \o <<SPACE>>
                       \o grpc_node_user_agent
               ELSE grpc_node_user_agent)

\* the options of C9: null, undefined, or a mapping of strings and integers
C9_Domain(v) ==
  v.k \in {"undefined", "null"} \/ (IsMapping(v) /\ AllStringOrInteger(v))

NoNul(str) == \A j \in 1..Len(str) : str[j] # NUL

\* restricted to keys and strings without a zero byte and to 32-bit signed
\* integers
C9_AmendedDomain(v) ==
  /\ C9_Domain(v)
  /\ \A j \in 1..Len(EntriesOf(v)) :
       /\ NoNul(EntriesOf(v)[j].key)
       /\ EntriesOf(v)[j].value.k = "string" => NoNul(EntriesOf(v)[j].value.s)
       /\ EntriesOf(v)[j].value.k = "number" => EntriesOf(v)[j].value.w = 0

\* the list entry a holds the user's entry e, type and value
EntryIs(a, e) ==
  /\ ~a.key.isnull /\ CStr(a.key.buf) = e.key
  /\ e.value.k = "string" =>
       a.type = "GRPC_ARG_STRING" /\ ~a.string.isnull /\ CStr(a.string.buf) = e.value.s
  /\ e.value.k = "number" =>
       a.type = "GRPC_ARG_INTEGER" /\ e.value.w = 0 /\ a.integer = e.value.n

C9_Conclusion(v) ==
  LET pr == EntriesOf(v)
      n == Len(pr)
      count == IF HasUserAgent(v) THEN n ELSE n + 1
      a == last.args.args
  IN /\ last.err = "none"
     /\ ~last.args.isnull
     /\ last.args.num_args = count
     /\ Len(a) = count
     /\ \A j \in 1..n :
          pr[j].key # GRPC_ARG_PRIMARY_USER_AGENT_STRING =>
            /\ EntryIs(a[j], pr[j])
            /\ \A i \in (1..count) \ {j} :
                 a[i].key.isnull \/ CStr(a[i].key.buf) # pr[j].key
     /\ ~HasUserAgent(v) =>
          /\ ~a[count].key.isnull
          /\ CStr(a[count].key.buf) = GRPC_ARG_PRIMARY_USER_AGENT_STRING
          /\ a[count].type = "GRPC_ARG_STRING"
          /\ ~a[count].string.isnull
          /\ CStr(a[count].string.buf) = grpc_node_user_agent

\* C9 as amended: for null, undefined, or a mapping whose keys and strings
\* hold no zero byte and whose integers are 32-bit signed, the encoding
\* succeeds, the list counts the user's entries plus one if the user gave no
\* identification entry, every other user entry is once in the list, at its
\* index, with its type and value, and the injected entry is last.
C9_EncodesEntries ==
  (last.op = "New" /\ C9_AmendedDomain(last.info[3])) => C9_Conclusion(last.info[3])

\* C9 as stated: the same for every mapping of strings and integers
C9_Original ==
  (last.op = "New" /\ C9_Domain(last.info[3])) => C9_Conclusion(last.info[3])

\* two user entries, a string and an integer, and the injected entry third
C9_Witness ==
  /\ last.op = "New" /\ C9_AmendedDomain(last.info[3])
  /\ Len(last.info[3].props) = 2
  /\ ~HasUserAgent(last.info[3])
  /\ last.info[3].props[1].value.k = "string"
  /\ last.info[3].props[2].value.k = "number"
  /\ last.args.num_args = 3

\* a mapping with a value that is neither a string nor an integer
HasIllTypedValue(v) ==
  /\ IsMapping(v)
  /\ \E j \in 1..Len(v.props) : v.props[j].value.k \notin {"string", "number"}

\* the entries populated: those before the first value the encoder rejects
Populated(v) ==
  {j \in 1..Len(v.props) :
     \A i \in 1..j : \/ v.props[i].value.k = "string"
                     \/ v.props[i].value.k = "number" /\ v.props[i].value.w = 0}

\* C10: for a mapping with an ill-typed value construction fails with a
\* type mismatch and never calls the transport's create; every key and
\* string value allocated for the entries before the failing one is freed
\* exactly once, and nothing is freed for any other entry.
C10_FailureFreesPopulated ==
  (last.op = "New" /\ HasIllTypedValue(last.info[3])) =>
    /\ last.err = "TypeError"
    /\ last.ret = Undefined
    /\ CreatePositions(last.events) = {}
    /\ \A c \in ChannelIds : channels[c].st = "unborn"
    /\ \A j \in 1..(MaxKeys + 1) :
         LET ka == Cardinality(Positions(last.events, "alloc", "key", j - 1))
             kf == Cardinality(Positions(last.events, "free", "key", j - 1))
             va == Cardinality(Positions(last.events, "alloc", "val", j - 1))
             vf == Cardinality(Positions(last.events, "free", "val", j - 1))
         IN IF j \in Populated(last.info[3])
            THEN /\ ka = 1 /\ kf = 1
                 /\ va = (IF last.info[3].props[j].value.k = "string" THEN 1 ELSE 0)
                 /\ vf = va
            ELSE ka = 0 /\ kf = 0 /\ va = 0 /\ vf = 0
    /\ Cardinality(Positions(last.events, "free", "args", 0)) = 1
    /\ Cardinality(Positions(last.events, "free", "list", 0)) = 1

\* the second value is ill-typed and the first, a string, was populated
C10_Witness ==
  /\ last.op = "New" /\ HasIllTypedValue(last.info[3])
  /\ Len(last.info[3].props) = 2
  /\ last.info[3].props[1].value.k = "string"
  /\ last.info[3].props[2].value.k = "boolean"
  /\ Positions(last.events, "free", "val", 0) # {}

\* C11: a watchConnectivityState call whose third argument is no function
\* throws, registers no tag, does not ask the completion queue to drain and
\* changes nothing; every tag registered holds a function, and every
\* callback the completion queue invokes is the function of a tag that a
\* call registered.
C11_Step ==
  /\ (last'.op = "watchConnectivityState" /\ ~IsFunction(last'.info[3])) =>
       /\ last'.err = "TypeError"
       /\ last'.ret = Undefined
       /\ last'.events = <<>>
       /\ UNCHANGED <<channels, handles, watches, pending_batches, calls>>
  /\ \A w \in WatchIds : watches'[w].st = "pending" => IsFunction(watches'[w].callback)
  /\ last'.op = "complete" =>
       /\ IsFunction(last'.info[1])
       /\ \E w \in WatchIds : /\ watches[w].st = "pending"
                              /\ watches[w].callback = last'.info[1]
                              /\ watches'[w].st = "done"

C11_NoCallbackNoWatch == [][C11_Step]_vars

\* a watch without callback has just failed on an open channel while the
\* completion queue awaits a completion
C11_Witness ==
  /\ OnChannel("watchConnectivityState")
  /\ IsUint32(last.info[1]) /\ IsNumber(last.info[2]) /\ ~IsFunction(last.info[3])
  /\ last.err = "TypeError"
  /\ channels[last.this.n].wrapped_channel # 0
  /\ pending_batches = 1

\* the value is one of the enum values of grpc_connectivity_state
IsConnectivityState(v) == v.k = "number" /\ v.w = 0 /\ v.n \in ConnectivityStates

\* C12 as stated: a watchConnectivityState call on an open channel whose
\* first argument is no connectivity state throws a type mismatch and
\* registers nothing.
C12_Claim ==
  (/\ OnChannel("watchConnectivityState")
   /\ channels[last.this.n].wrapped_channel # 0
   /\ ~IsConnectivityState(last.info[1])) =>
    /\ last.err = "TypeError"
    /\ Count(last.events, "native", "grpc_channel_watch_connectivity_state") = 0
    /\ Count(last.events, "cq", "CompletionQueueNext") = 0

\* C13: a createCall whose fourth argument is no Call and neither null nor
\* undefined throws a type mismatch, never reaches the transport's
\* create_call and creates no Call; a createCall that goes through with a
\* null or undefined fourth argument calls create_call once, and the Call
\* it returns has no parent.
C13_Step ==
  last'.op = "createCall" =>
    /\ ~(Call_HasInstance(last'.info[4]) \/ IsUndefined(last'.info[4])
         \/ IsNull(last'.info[4])) =>
         /\ last'.err = "TypeError"
         /\ last'.ret = Undefined
         /\ Count(last'.events, "native", "grpc_channel_create_call") = 0
         /\ calls' = calls
    /\ ((IsUndefined(last'.info[4]) \/ IsNull(last'.info[4])) /\ last'.err = "none") =>
         /\ Count(last'.events, "native", "grpc_channel_create_call") = 1
         /\ Call_HasInstance(last'.ret) =>
              /\ calls[last'.ret.n].st = "free"
              /\ calls'[last'.ret.n] = [st |-> "live", wrapped_call |-> last'.ret.n,
                                        parent |-> 0]
              /\ \A k \in CallIds \ {last'.ret.n} : calls'[k] = calls[k]

C13_ParentChecked == [][C13_Step]_vars

\* a createCall with an object that is no Call as parent has failed on an
\* open channel, its other arguments well-typed, beside a Call made earlier
C13_Witness ==
  /\ OnChannel("createCall") /\ last.err = "TypeError"
  /\ IsString(last.info[1]) /\ IsNumber(last.info[2]) /\ IsObject(last.info[4])
  /\ ~Call_HasInstance(last.info[4])
  /\ channels[last.this.n].wrapped_channel # 0
  /\ \E k \in CallIds : calls[k].st = "live" /\ calls[k].parent = 0

\* the handlers of C14, and the errors they throw
FailingOps == {"New", "getTarget", "getConnectivityState", "watchConnectivityState",
               "createCall"}

\* allocations of the handler last run that it has not released
Unreleased(events) ==
  {j \in 1..Len(events) :
     /\ events[j].e = "alloc"
     /\ ~\E f \in Positions(events, "free", events[j].kind, events[j].i) : j < f}

\* C14 as stated: a construction, getTarget, getConnectivityState,
\* watchConnectivityState or createCall that throws a type mismatch or the
\* closed-channel error has called no transport operation, has released
\* every allocation it made, and has left the channels' handles, the
\* pending watches and the live calls as they were.
C14_Step ==
  (last'.op \in FailingOps /\ last'.err \in {"TypeError", "Error"}) =>
    /\ \A j \in 1..Len(last'.events) : last'.events[j].e # "native"
    /\ Unreleased(last'.events) = {}
    /\ UNCHANGED <<channels, handles, watches, pending_batches, calls>>

C14_Claim == [][C14_Step]_vars

\* C15: close() and the teardown of a Channel change no Call: the live
\* calls, their call handles and their parent links are afterwards what they
\* were before, and the only transport operation either makes is the
\* destruction of the channel's own handle.
C15_Step ==
  last'.op \in {"close", "teardown"} =>
    /\ calls' = calls
    /\ \A j \in 1..Len(last'.events) :
         last'.events[j].e = "native" /\ last'.events[j].kind = "grpc_channel_destroy"

C15_CallsOutliveChannel == [][C15_Step]_vars

\* close() has destroyed the handle of the channel whose createCall made two
\* Calls, the second with the first as parent
C15_Witness ==
  /\ OnChannel("close") /\ last.err = "none" /\ last.events # <<>>
  /\ channels[last.this.n].wrapped_channel = 0
  /\ \E k, p \in CallIds : /\ calls[k].st = "live" /\ calls[k].wrapped_call = k
                           /\ calls[k].parent = p
                           /\ calls[p].st = "live"

\* C16: a Channel whose handle is null keeps a null handle in every later
\* state; the operation that follows a close() on the same channel fails
\* without a transport operation; and no operation passes a handle that
\* was destroyed to the transport.
C16_Step ==
  /\ \A c \in ChannelIds :
       (channels[c].st # "unborn" /\ channels[c].wrapped_channel = 0) =>
         (channels'[c].st # "unborn" /\ channels'[c].wrapped_channel = 0)
  /\ (/\ last.op = "close" /\ last.err = "none"
      /\ last'.op \in OpenOps /\ last'.this = last.this) =>
       /\ last'.err \in {"Error", "TypeError"}
       /\ last'.ret = Undefined
       /\ last'.events = <<>>
  /\ \A j \in 1..Len(last'.events) :
       (last'.events[j].e = "native" /\ last'.events[j].kind \in HandleOps) =>
         /\ last'.events[j].i # 0
         /\ handles[last'.events[j].i].created = 1
         /\ handles[last'.events[j].i].destroyed = 0

C16_NoWayBackToOpen == [][C16_Step]_vars

\* getConnectivityState has found the channel closed whose handle close()
\* destroyed
C16_Witness ==
  /\ OnChannel("getConnectivityState") /\ last.err = "Error"
  /\ channels[last.this.n].st = "live" /\ channels[last.this.n].closed
  /\ channels[last.this.n].wrapped_channel = 0
  /\ handles[1].destroyed = 1

\* callback invocations over the tags 1..n
RECURSIVE Invocations(_)
Invocations(n) == IF n = 0 THEN 0 ELSE watches[n].called + Invocations(n - 1)

\* C17: a watchConnectivityState call that goes through registers one new
\* tag with the callback it was given and leaves every other tag as it was;
\* a completion resolves one pending tag, invokes the function of that tag
\* once and leaves every other tag as it was; no other step changes a tag;
\* and the callbacks invoked are as many as the tags completed.
C17_Step ==
  /\ (last'.op = "watchConnectivityState" /\ last'.err = "none") =>
       \E w \in WatchIds :
         /\ watches[w].st = "free"
         /\ watches'[w] = [st |-> "pending", called |-> 0, callback |-> last'.info[3]]
         /\ Positions(last'.events, "alloc", "tag", w) # {}
         /\ Positions(last'.events, "alloc", "callback", w) # {}
         /\ \A v \in WatchIds \ {w} : watches'[v] = watches[v]
  /\ last'.op = "complete" =>
       \E w \in WatchIds :
         /\ watches[w].st = "pending"
         /\ watches'[w].st = "done"
         /\ watches'[w].called = watches[w].called + 1
         /\ last'.info = <<watches[w].callback>>
         /\ {j \in 1..Len(last'.events) : last'.events[j].e = "callback"} = {1}
         /\ last'.events[1].i = w
         /\ \A v \in WatchIds \ {w} : watches'[v] = watches[v]
  /\ ~(last'.op = "complete" \/ (last'.op = "watchConnectivityState" /\ last'.err = "none"))
       => watches' = watches
  /\ Invocations(MaxWatches) = Cardinality({w \in WatchIds : watches[w].st = "done"})

C17_WatchesIndependent == [][C17_Step]_vars

\* of two watches registered on the channel with different callbacks the
\* second has completed and the first is still pending
C17_Witness ==
  /\ last.op = "complete"
  /\ last.events[1].i = 2
  /\ watches[2].st = "done" /\ watches[2].called = 1
  /\ watches[1].st = "pending" /\ watches[1].called = 0
  /\ IsFunction(watches[1].callback) /\ watches[1].callback # last.info[1]

\* the arguments of a construction pass its checks
Validated(info) ==
  /\ IsString(info[1])
  /\ ChannelCredentials_HasInstance(info[2])
  /\ ParseChannelArgs(info[3]).ok

\* C18: a construction whose arguments pass the checks calls the
\* transport's create once: grpc_insecure_channel_create when the
\* credentials object wraps no credentials, grpc_secure_channel_create
\* otherwise; a construction whose arguments fail a check calls neither.
C18_OneCreate ==
  last.op = "New" =>
    IF Validated(last.info)
    THEN /\ last.err = "none"
         /\ Cardinality(CreatePositions(last.events)) = 1
         /\ \A j \in CreatePositions(last.events) :
              last.events[j].kind = (IF last.info[2].n = 0
                                     THEN "grpc_insecure_channel_create"
                                     ELSE "grpc_secure_channel_create")
    ELSE /\ last.err = "TypeError"
         /\ CreatePositions(last.events) = {}

\* a construction with credentials has made its channel through
\* grpc_secure_channel_create
C18_Witness ==
  /\ last.op = "New" /\ last.err = "none"
  /\ last.info[2].n # 0
  /\ Count(last.events, "native", "grpc_secure_channel_create") = 1
  /\ HasInstance(last.ret) /\ channels[last.ret.n].wrapped_channel # 0

\* C19: a watchConnectivityState call that passes its checks registers one
\* watch with the transport and then asks the completion queue once to
\* drain, in this order; it invokes no callback itself, the tag it leaves
\* is pending with its callback not yet invoked, and the channels and their
\* handles are as before.
C19_Step ==
  (last'.op = "watchConnectivityState" /\ last'.err = "none") =>
    /\ Count(last'.events, "native", "grpc_channel_watch_connectivity_state") = 1
    /\ Count(last'.events, "cq", "CompletionQueueNext") = 1
    /\ \A a, b \in 1..Len(last'.events) :
         (/\ last'.events[a].e = "native"
          /\ last'.events[a].kind = "grpc_channel_watch_connectivity_state"
          /\ last'.events[b].e = "cq") => a < b
    /\ \A j \in 1..Len(last'.events) : last'.events[j].e # "callback"
    /\ last'.ret = Undefined
    /\ pending_batches' = pending_batches + 1
    /\ \A w \in WatchIds : watches'[w].called = watches[w].called
    /\ \E w \in WatchIds : /\ watches[w].st = "free"
                           /\ watches'[w].st = "pending"
                           /\ watches'[w].called = 0
    /\ UNCHANGED <<channels, handles>>
    /\ channels'[last'.this.n].wrapped_channel # 0

C19_RegisterThenTrigger == [][C19_Step]_vars

\* a second watch has been registered on the open channel while the first
\* is pending: two completions are awaited and no callback was invoked
C19_Witness ==
  /\ OnChannel("watchConnectivityState") /\ last.err = "none"
  /\ channels[last.this.n].wrapped_channel # 0
  /\ pending_batches = 2
  /\ \A w \in {1, 2} : watches[w].st = "pending" /\ watches[w].called = 0

\* the handler last run was this method, on a Channel whose handle is null
OnClosed(op) == OnChannel(op) /\ channels[last.this.n].wrapped_channel = 0

\* C20: on a channel whose handle is null, watchConnectivityState with an
\* ill-typed state, deadline or callback and createCall with an ill-typed
\* method, deadline, parent or flags throw the type mismatch; with these
\* well-typed both throw the closed-channel error, createCall whatever its
\* host argument is and without any allocation.
C20_ChecksInOrder ==
  /\ OnClosed("watchConnectivityState") =>
       /\ last.err = (IF WatchWellTyped(last.info) THEN "Error" ELSE "TypeError")
       /\ last.events = <<>>
  /\ OnClosed("createCall") =>
       /\ last.err = (IF CreateCallWellTyped(last.info) THEN "Error" ELSE "TypeError")
       /\ last.events = <<>>
       /\ last.ret = Undefined

\* createCall on a closed channel with a number as host and the other
\* arguments well-typed has thrown the closed-channel error
C20_Witness ==
  /\ OnClosed("createCall") /\ channels[last.this.n].closed
  /\ CreateCallWellTyped(last.info)
  /\ IsNumber(last.info[3])
  /\ last.err = "Error" /\ last.events = <<>>

====
